---- MODULE Spec2Model ----
(***************************************************************************)
(* Model of clap-verbosity-flag (src/src/lib.rs): a Verbosity<L> value     *)
(* holds two u8 occurrence counts and resolves them, against the baseline  *)
(* level of its LogLevel provider L, to one of six VerbosityFilter levels. *)
(***************************************************************************)
EXTENDS Integers, Sequences, FiniteSets

\* ------------------------------------------------------------------ bounds
\* Counts are sampled at both ends of the u8 range: 0..MaxCount and
\* U8Max-MaxCount..U8Max.
MaxCount == 6

\* --------------------------------------------------------- integer widths
U8Max == 255
I16Min == -32768
I16Max == 32767
I16Modulus == 65536

Counts == (0..MaxCount) \cup ((U8Max - MaxCount)..U8Max)

\* ----------------------------------------------------------- data types
\* enum VerbosityFilter { Off, Error, Warn, Info, Debug, Trace }
VerbosityFilter == {"Off", "Error", "Warn", "Info", "Debug", "Trace"}

\* The six shipped implementations of the LogLevel trait.
LogLevel ==
  {"OffLevel", "ErrorLevel", "WarnLevel", "InfoLevel", "DebugLevel", "TraceLevel"}

DefaultLogLevel_warn == "WarnLevel"

\* struct Verbosity<L: LogLevel = ErrorLevel>: the default type argument.
DefaultLogLevel == "ErrorLevel"

\* Value of the locals of a call that was not made.
None == "none"
\* Return value of a call that panicked.
Panic == "panic"

\* --------------------------------------------------------- LogLevel impls
default_filter_swapped(l) ==
  CASE l = "OffLevel" -> "Off"
    [] l = "ErrorLevel" -> "Error"
    [] l = "WarnLevel" -> "Error"
    [] l = "InfoLevel" -> "Info"
    [] l = "DebugLevel" -> "Debug"
    [] l = "TraceLevel" -> "Trace"

\* fn default_filter() -> VerbosityFilter, one per provider.
default_filter(l) ==
  CASE l = "OffLevel" -> "Off"
    [] l = "ErrorLevel" -> "Error"
    [] l = "WarnLevel" -> "Warn"
    [] l = "InfoLevel" -> "Info"
    [] l = "DebugLevel" -> "Debug"
    [] l = "TraceLevel" -> "Trace"

\* ------------------------------------------------------ VerbosityFilter
value_dup(self) ==
  CASE self = "Off" -> 0
    [] self = "Error" -> 1
    [] self = "Warn" -> 2
    [] self = "Info" -> 3
    [] self = "Debug" -> 3
    [] self = "Trace" -> 5

\* fn value(&self) -> u8
value(self) ==
  CASE self = "Off" -> 0
    [] self = "Error" -> 1
    [] self = "Warn" -> 2
    [] self = "Info" -> 3
    [] self = "Debug" -> 4
    [] self = "Trace" -> 5

InI16(n) == I16Min <= n /\ n <= I16Max

\* Two's-complement reduction of an integer to 16 bits.
WrapI16(n) == ((n - I16Min) % I16Modulus) + I16Min

U8AsI8(x) == IF x >= 128 THEN x - 256 ELSE x

\* `x as i16` / i16::from(x) for x: u8 (zero extension, then reinterpretation).
U8AsI16(x) == WrapI16(x % I16Modulus)

\* i16::saturating_add
I16SaturatingAdd(a, b) ==
  IF a + b > I16Max THEN I16Max
  ELSE IF a + b < I16Min THEN I16Min
  ELSE a + b

I16Sub_swapped(a, b) ==
  IF InI16(b - a)
    THEN {[panic |-> FALSE, val |-> b - a]}
    ELSE {[panic |-> TRUE, val |-> None],
          [panic |-> FALSE, val |-> WrapI16(b - a)]}

\* The i16 subtraction operator: an overflow panics in a build with overflow
\* checks and wraps in a build without them.
I16Sub(a, b) ==
  IF InI16(a - b)
    THEN {[panic |-> FALSE, val |-> a - b]}
    ELSE {[panic |-> TRUE, val |-> None],
          [panic |-> FALSE, val |-> WrapI16(a - b)]}

\* The value matched on in with_offset.
with_offset_scrutinee(self, offset) ==
  I16SaturatingAdd(U8AsI16(value(self)), offset)

with_offset_unclamped_top(self, offset) ==
  LET n == with_offset_scrutinee(self, offset) IN
  CASE I16Min <= n /\ n <= 0 -> "Off"
    [] n = 1 -> "Error"
    [] n = 2 -> "Warn"
    [] n = 3 -> "Info"
    [] n = 4 -> "Debug"
    [] n = 5 -> "Trace"
    [] OTHER -> "Off"

with_offset_unclamped_bottom(self, offset) ==
  LET n == with_offset_scrutinee(self, offset) IN
  CASE n = 0 -> "Off"
    [] n = 1 -> "Error"
    [] n = 2 -> "Warn"
    [] n = 3 -> "Info"
    [] n = 4 -> "Debug"
    [] OTHER -> "Trace"

with_offset_shifted(self, offset) ==
  LET n == with_offset_scrutinee(self, offset) IN
  CASE I16Min <= n /\ n <= 1 -> "Off"
    [] n = 2 -> "Error"
    [] n = 3 -> "Warn"
    [] n = 4 -> "Info"
    [] n = 5 -> "Debug"
    [] 6 <= n /\ n <= I16Max -> "Trace"

with_offset_skip(self, offset) ==
  LET n == with_offset_scrutinee(self, offset) IN
  CASE I16Min <= n /\ n <= 0 -> "Off"
    [] n = 1 -> "Error"
    [] n = 2 -> "Warn"
    [] n = 3 -> "Debug"
    [] n = 4 -> "Debug"
    [] 5 <= n /\ n <= I16Max -> "Trace"

\* fn with_offset(&self, offset: i16) -> VerbosityFilter
with_offset(self, offset) ==
  LET n == with_offset_scrutinee(self, offset) IN
  CASE I16Min <= n /\ n <= 0 -> "Off"
    [] n = 1 -> "Error"
    [] n = 2 -> "Warn"
    [] n = 3 -> "Info"
    [] n = 4 -> "Debug"
    [] 5 <= n /\ n <= I16Max -> "Trace"

\* ------------------------------------------------------------- Verbosity
\* pub fn filter(&self) -> VerbosityFilter: the set of outcomes of one call,
\* each with the locals of the call.
filter(l, v, q) ==
  { IF o.panic
      THEN [panic |-> TRUE, offset |-> None, scrutinee |-> None, ret |-> Panic]
      ELSE [panic |-> FALSE,
            offset |-> o.val,
            scrutinee |-> with_offset_scrutinee(default_filter(l), o.val),
            ret |-> with_offset(default_filter(l), o.val)]
    : o \in I16Sub(U8AsI16(v), U8AsI16(q)) }

is_present_both(v, q) == v # 0 /\ q # 0

\* pub fn is_present(&self) -> bool
is_present(v, q) == v # 0 \/ q # 0

is_silent_error(r) == r = "Error"

\* pub fn is_silent(&self) -> bool, given the value its call of filter returned.
is_silent(r) == r = "Off"

fmt_warning(self) ==
  CASE self = "Off" -> "off"
    [] self = "Error" -> "error"
    [] self = "Warn" -> "warning"
    [] self = "Info" -> "info"
    [] self = "Debug" -> "debug"
    [] self = "Trace" -> "trace"

\* impl fmt::Display for VerbosityFilter: the text written by fmt.
fmt(self) ==
  CASE self = "Off" -> "off"
    [] self = "Error" -> "error"
    [] self = "Warn" -> "warn"
    [] self = "Info" -> "info"
    [] self = "Debug" -> "debug"
    [] self = "Trace" -> "trace"

U8WrappingSub(a, b) == (a - b) % (U8Max + 1)

\* u8::saturating_sub
U8SaturatingSub(a, b) == IF a - b < 0 THEN 0 ELSE a - b

from_swapped(l, f) ==
  [verbose |-> U8SaturatingSub(value(default_filter(l)), value(f)),
   quiet |-> U8SaturatingSub(value(f), value(default_filter(l)))]

\* impl From<VerbosityFilter> for Verbosity<L>: the counts handed to new.
from(l, f) ==
  [verbose |-> U8SaturatingSub(value(f), value(default_filter(l))),
   quiet |-> U8SaturatingSub(value(default_filter(l)), value(f))]

\* ---------------------------------------------------- log / tracing
log_level_filter_from_dup(filter_) ==
  CASE filter_ = "Off" -> "LevelFilter::Off"
    [] filter_ = "Error" -> "LevelFilter::Error"
    [] filter_ = "Warn" -> "LevelFilter::Error"
    [] filter_ = "Info" -> "LevelFilter::Info"
    [] filter_ = "Debug" -> "LevelFilter::Debug"
    [] filter_ = "Trace" -> "LevelFilter::Trace"

\* log.rs: impl From<Filter> for LevelFilter
log_level_filter_from(filter_) ==
  CASE filter_ = "Off" -> "LevelFilter::Off"
    [] filter_ = "Error" -> "LevelFilter::Error"
    [] filter_ = "Warn" -> "LevelFilter::Warn"
    [] filter_ = "Info" -> "LevelFilter::Info"
    [] filter_ = "Debug" -> "LevelFilter::Debug"
    [] filter_ = "Trace" -> "LevelFilter::Trace"

\* log.rs: impl From<Filter> for Option<Level>
log_level_from(filter_) ==
  CASE filter_ = "Off" -> "None"
    [] filter_ = "Error" -> "Some(Level::Error)"
    [] filter_ = "Warn" -> "Some(Level::Warn)"
    [] filter_ = "Info" -> "Some(Level::Info)"
    [] filter_ = "Debug" -> "Some(Level::Debug)"
    [] filter_ = "Trace" -> "Some(Level::Trace)"

\* tracing.rs: impl From<Filter> for LevelFilter
tracing_level_filter_from(filter_) ==
  CASE filter_ = "Off" -> "LevelFilter::OFF"
    [] filter_ = "Error" -> "LevelFilter::ERROR"
    [] filter_ = "Warn" -> "LevelFilter::WARN"
    [] filter_ = "Info" -> "LevelFilter::INFO"
    [] filter_ = "Debug" -> "LevelFilter::DEBUG"
    [] filter_ = "Trace" -> "LevelFilter::TRACE"

\* tracing.rs: impl From<Filter> for Option<Level>
tracing_level_from(filter_) ==
  CASE filter_ = "Off" -> "None"
    [] filter_ = "Error" -> "Some(Level::ERROR)"
    [] filter_ = "Warn" -> "Some(Level::WARN)"
    [] filter_ = "Info" -> "Some(Level::INFO)"
    [] filter_ = "Debug" -> "Some(Level::DEBUG)"
    [] filter_ = "Trace" -> "Some(Level::TRACE)"

\* ----------------------------------------------------------------- serde
rename_all_none(variant) == variant

rename_all_uppercase(variant) ==
  CASE variant = "Off" -> "OFF"
    [] variant = "Error" -> "ERROR"
    [] variant = "Warn" -> "WARN"
    [] variant = "Info" -> "INFO"
    [] variant = "Debug" -> "DEBUG"
    [] variant = "Trace" -> "TRACE"

\* serde(rename_all = "lowercase") on enum VerbosityFilter: the name every
\* variant is serialized as and deserialized from.
rename_all_lowercase(variant) ==
  CASE variant = "Off" -> "off"
    [] variant = "Error" -> "error"
    [] variant = "Warn" -> "warn"
    [] variant = "Info" -> "info"
    [] variant = "Debug" -> "debug"
    [] variant = "Trace" -> "trace"

\* derive(Serialize) for the unit variants of VerbosityFilter: the variant
\* name of the unit-variant token, which a format writes as one string.
serialize(self) == rename_all_lowercase(self)

\* derive(Deserialize) for VerbosityFilter: the variants a name stands for
\* (none for an unknown name).
deserialize(name) == {f \in VerbosityFilter : rename_all_lowercase(f) = name}

\* The names handed to Deserialize: the six the format defines and the
\* capitalised one of the type's documentation.
Names == {"off", "error", "warn", "info", "debug", "trace", "Debug"}

\* ------------------------------------------------------------- clap::Args
\* At most MaxArgs flag occurrences are given on a command line.
MaxArgs == 3

\* The occurrences of the two flags on a command line, in order: -v or
\* --verbose, -q or --quiet.
CommandLines == UNION {[1..n -> {"-v", "-q"}] : n \in 0..MaxArgs}

\* action = clap::ArgAction::Count on a u8 field: the number of occurrences
\* of the flag, saturating at u8::MAX.
Count(args, flag) ==
  LET n == Cardinality({i \in DOMAIN args : args[i] = flag}) IN
  IF n > U8Max THEN U8Max ELSE n

parse_no_conflict(args) ==
  [ok |-> TRUE, verbose |-> Count(args, "-v"), quiet |-> Count(args, "-q")]

\* derive(clap::Args) for Verbosity: quiet is declared conflicts_with
\* "verbose", so a command line with both flags is a usage error.
parse(args) ==
  IF Count(args, "-v") > 0 /\ Count(args, "-q") > 0
    THEN [ok |-> FALSE, verbose |-> 0, quiet |-> 0]
    ELSE [ok |-> TRUE, verbose |-> Count(args, "-v"), quiet |-> Count(args, "-q")]

\* ------------------------------------------------------------------ state
VARIABLES
  L,          \* the type argument of the Verbosity
  verbose,    \* Verbosity.verbose: u8
  quiet,      \* Verbosity.quiet: u8
  op,         \* the last function called
  ret,        \* what that call returned
  panicked,   \* whether that call panicked
  offset,     \* filter's local `offset` in that call
  scrutinee,  \* the value with_offset matched on in that call
  arg,        \* the argument of that call, None if it takes none
  ctor,       \* the function that built the Verbosity
  from_filter \* the VerbosityFilter it was converted from, None if none

vars == <<L, verbose, quiet, op, ret, panicked, offset, scrutinee,
          arg, ctor, from_filter>>

\* The fields of the Verbosity and the record of how it was built.
object == <<L, verbose, quiet, ctor, from_filter>>

\* pub fn new(verbose: u8, quiet: u8) -> Self, for some provider L.
Init ==
  /\ L \in LogLevel
  /\ verbose \in Counts
  /\ quiet \in Counts
  /\ op = "new"
  /\ ret = None
  /\ panicked = FALSE
  /\ offset = None
  /\ scrutinee = None
  /\ arg = None
  /\ ctor = "new"
  /\ from_filter = None

\* A call `name` of a method that starts by calling self.filter() and maps
\* the level it gets with the conversion `conv`.
FilterThen(name, conv) ==
  /\ ~panicked
  /\ \E o \in filter(L, verbose, quiet) :
       /\ op' = name
       /\ ret' = IF o.panic THEN Panic ELSE conv[o.ret]
       /\ panicked' = o.panic
       /\ offset' = o.offset
       /\ scrutinee' = o.scrutinee
  /\ arg' = None
  /\ UNCHANGED object

Filter_consuming ==
  /\ ~panicked
  /\ \E o \in filter(L, verbose, quiet) :
       /\ op' = "filter"
       /\ ret' = o.ret
       /\ panicked' = o.panic
       /\ offset' = o.offset
       /\ scrutinee' = o.scrutinee
  /\ arg' = None
  /\ verbose' = 0
  /\ quiet' = 0
  /\ UNCHANGED <<L, ctor, from_filter>>

Filter ==
  /\ ~panicked
  /\ \E o \in filter(L, verbose, quiet) :
       /\ op' = "filter"
       /\ ret' = o.ret
       /\ panicked' = o.panic
       /\ offset' = o.offset
       /\ scrutinee' = o.scrutinee
  /\ arg' = None
  /\ UNCHANGED object

IsPresent ==
  /\ ~panicked
  /\ op' = "is_present"
  /\ ret' = is_present(verbose, quiet)
  /\ offset' = None
  /\ scrutinee' = None
  /\ arg' = None
  /\ UNCHANGED <<object, panicked>>

IsSilent ==
  /\ ~panicked
  /\ \E o \in filter(L, verbose, quiet) :
       /\ op' = "is_silent"
       /\ ret' = IF o.panic THEN Panic ELSE is_silent(o.ret)
       /\ panicked' = o.panic
       /\ offset' = o.offset
       /\ scrutinee' = o.scrutinee
  /\ arg' = None
  /\ UNCHANGED object

\* impl fmt::Display for Verbosity<L>
Display ==
  FilterThen("display",
             [f \in VerbosityFilter |-> fmt(f)])

\* Verbosity::<L>::from(filter): a Verbosity built from a target level.
From ==
  /\ ~panicked
  /\ \E f \in VerbosityFilter :
       /\ verbose' = from(L, f).verbose
       /\ quiet' = from(L, f).quiet
       /\ arg' = f
       /\ from_filter' = f
  /\ op' = "from"
  /\ ctor' = "from"
  /\ ret' = None
  /\ offset' = None
  /\ scrutinee' = None
  /\ UNCHANGED <<L, panicked>>

\* pub fn log_level(&self) -> Option<log::Level>
VerbosityLogLevel ==
  FilterThen("log_level",
             [f \in VerbosityFilter |-> log_level_from(f)])

\* pub fn log_level_filter(&self) -> log::LevelFilter
VerbosityLogLevelFilter ==
  FilterThen("log_level_filter",
             [f \in VerbosityFilter |-> log_level_filter_from(f)])

\* pub fn tracing_level(&self) -> Option<tracing_core::Level>
VerbosityTracingLevel ==
  FilterThen("tracing_level",
             [f \in VerbosityFilter |-> tracing_level_from(f)])

\* pub fn tracing_level_filter(&self) -> tracing_core::LevelFilter
VerbosityTracingLevelFilter ==
  FilterThen("tracing_level_filter",
             [f \in VerbosityFilter |-> tracing_level_filter_from(f)])

\* derive(Serialize) with serde(into = "VerbosityFilter")
Serialize ==
  FilterThen("serialize",
             [f \in VerbosityFilter |-> serialize(f)])

\* derive(Deserialize) with serde(from = "VerbosityFilter"): a Verbosity<L>
\* read from a name; an unknown name is an error and builds nothing.
Deserialize ==
  /\ ~panicked
  /\ \E name \in Names :
       /\ arg' = name
       /\ IF deserialize(name) = {}
            THEN /\ ret' = "Err"
                 /\ UNCHANGED <<verbose, quiet, ctor, from_filter>>
            ELSE \E f \in deserialize(name) :
                   /\ ret' = "Ok"
                   /\ verbose' = from(L, f).verbose
                   /\ quiet' = from(L, f).quiet
                   /\ ctor' = "deserialize"
                   /\ from_filter' = f
  /\ op' = "deserialize"
  /\ offset' = None
  /\ scrutinee' = None
  /\ UNCHANGED <<L, panicked>>

\* clap::FromArgMatches for Verbosity<L>: a Verbosity parsed from a command
\* line; a usage error builds nothing.
Parse ==
  /\ ~panicked
  /\ \E args \in CommandLines :
       /\ arg' = args
       /\ IF parse(args).ok
            THEN /\ ret' = "Ok"
                 /\ verbose' = parse(args).verbose
                 /\ quiet' = parse(args).quiet
                 /\ ctor' = "parse"
                 /\ from_filter' = None
            ELSE /\ ret' = "Err"
                 /\ UNCHANGED <<verbose, quiet, ctor, from_filter>>
  /\ op' = "parse"
  /\ offset' = None
  /\ scrutinee' = None
  /\ UNCHANGED <<L, panicked>>

Next ==
  \/ Filter
  \/ IsPresent
  \/ IsSilent
  \/ Display
  \/ From
  \/ VerbosityLogLevel
  \/ VerbosityLogLevelFilter
  \/ VerbosityTracingLevel
  \/ VerbosityTracingLevelFilter
  \/ Serialize
  \/ Deserialize
  \/ Parse

Spec == Init /\ [][Next]_vars

\* ------------------------------------------------- the documented mapping
\* The severity scale, least to most verbose.
Scale == <<"Off", "Error", "Warn", "Info", "Debug", "Trace">>

\* rank(level): zero-based position of a level on the scale.
Rank(level) == CHOOSE i \in 0..5 : Scale[i + 1] = level

\* from_rank(n), for n in 0..5.
FromRank(n) == Scale[n + 1]

Clamp(n, lo, hi) == IF n < lo THEN lo ELSE IF n > hi THEN hi ELSE n

\* The level every provider is named after.
NamedLevel(l) ==
  CHOOSE f \in VerbosityFilter :
    \/ l = "OffLevel" /\ f = "Off"
    \/ l = "ErrorLevel" /\ f = "Error"
    \/ l = "WarnLevel" /\ f = "Warn"
    \/ l = "InfoLevel" /\ f = "Info"
    \/ l = "DebugLevel" /\ f = "Debug"
    \/ l = "TraceLevel" /\ f = "Trace"

\* The effective level of the documented contract.
EffectiveLevel(l, v, q) == FromRank(Clamp(Rank(NamedLevel(l)) + v - q, 0, 5))

TypeOK ==
  /\ L \in LogLevel
  /\ verbose \in 0..U8Max
  /\ quiet \in 0..U8Max
  /\ op \in {"new", "filter", "is_present", "is_silent", "display", "from",
             "log_level", "log_level_filter", "tracing_level",
             "tracing_level_filter", "serialize", "deserialize",
             "parse"}
  /\ ctor \in {"new", "from", "deserialize", "parse"}
  /\ from_filter \in VerbosityFilter \cup {None}
  /\ panicked \in BOOLEAN

\* C1: every call of filter() returns
\* from_rank(clamp(rank(baseline) + verbose - quiet, 0, 5)).
C1_FilterIsClampedRank ==
  op = "filter" =>
    ret = FromRank(Clamp(Rank(default_filter(L)) + verbose - quiet, 0, 5))

C1_Witness ==
  /\ op = "filter"
  /\ L = "InfoLevel"
  /\ verbose = 2
  /\ quiet = 1
  /\ ret = "Debug"

\* C2: filter() is total and never overflows: the call does not panic, its
\* offset is verbose - quiet exactly and lies in the i16 range, the value
\* matched on is the exact sum of baseline rank and offset (in range, so
\* nothing wrapped), and the result is one of the six levels.
C2_FilterTotalNoOverflow ==
  op = "filter" =>
    /\ ~panicked
    /\ offset = verbose - quiet
    /\ InI16(offset)
    /\ scrutinee = Rank(default_filter(L)) + verbose - quiet
    /\ InI16(scrutinee)
    /\ ret \in VerbosityFilter

C2_Witness ==
  /\ op = "filter"
  /\ verbose = 0
  /\ quiet = U8Max
  /\ L = "ErrorLevel"
  /\ offset = -255
  /\ ret = "Off"
  /\ ~panicked

\* C3: for a fixed baseline and quiet count, a larger verbose count never
\* gives a lower level; for a fixed baseline and verbose count, a larger
\* quiet count never gives a higher level.
C3_Monotone ==
  op = "filter" =>
    /\ \A v2 \in Counts : \A o \in filter(L, v2, quiet) :
         verbose <= v2 => ~o.panic /\ Rank(ret) <= Rank(o.ret)
    /\ \A q2 \in Counts : \A o \in filter(L, verbose, q2) :
         quiet <= q2 => ~o.panic /\ Rank(o.ret) <= Rank(ret)

C3_Witness ==
  /\ op = "filter"
  /\ L = "WarnLevel"
  /\ verbose = 1
  /\ quiet = 2
  /\ ret = "Error"
  /\ \E o \in filter(L, 3, quiet) : o.ret = "Info"
  /\ \E o \in filter(L, verbose, U8Max) : o.ret = "Off"

\* C4: with quiet = 0, any verbose count of at least 5 - rank(baseline)
\* gives Trace; in particular baseline Trace gives Trace for every count.
C4_SaturatesAtTop ==
  (op = "filter" /\ quiet = 0 /\ verbose >= 5 - Rank(NamedLevel(L))) =>
    ret = "Trace"

C4_Witness ==
  /\ op = "filter"
  /\ quiet = 0
  /\ verbose = U8Max
  /\ L = "OffLevel"
  /\ ret = "Trace"

\* C5: with verbose = 0, any quiet count of at least rank(baseline) gives
\* Off; in particular baseline Off gives Off for every count.
C5_SaturatesAtBottom ==
  (op = "filter" /\ verbose = 0 /\ quiet >= Rank(NamedLevel(L))) =>
    ret = "Off"

C5_Witness ==
  /\ op = "filter"
  /\ verbose = 0
  /\ quiet = U8Max
  /\ L = "TraceLevel"
  /\ ret = "Off"

\* C6: for each shipped provider, equal counts give the level the provider
\* is named after.
C6_Cancellation ==
  (op = "filter" /\ verbose = quiet) => ret = NamedLevel(L)

C6_Witness ==
  /\ op = "filter"
  /\ verbose = U8Max
  /\ quiet = U8Max
  /\ L = "WarnLevel"
  /\ ret = "Warn"

\* C7: with_offset(0) returns the level it was called on, and value() maps
\* Off, Error, Warn, Info, Debug, Trace to exactly 0..5, strictly increasing.
C7_RankRoundTrip ==
  /\ (op = "filter" /\ offset = 0) =>
       /\ ret = default_filter(L)
       /\ scrutinee = value(ret)
  /\ \A i \in 1..6 : value(Scale[i]) = i - 1
  /\ \A a, b \in VerbosityFilter : Rank(a) < Rank(b) => value(a) < value(b)
  /\ op = "filter" => with_offset(ret, 0) = ret

C7_Witness ==
  /\ op = "filter"
  /\ offset = 0
  /\ L = "DebugLevel"
  /\ ret = "Debug"
  /\ scrutinee = 4

\* C8: with the default provider, no flags give Error, one -q gives Off, one
\* to four -v give Warn, Info, Debug, Trace, and 5, 6 or 255 -v give Trace.
C8_DefaultBaselineTable ==
  (op = "filter" /\ L = DefaultLogLevel) =>
    /\ (verbose = 0 /\ quiet = 0) => ret = "Error"
    /\ (verbose = 0 /\ quiet = 1) => ret = "Off"
    /\ (verbose = 1 /\ quiet = 0) => ret = "Warn"
    /\ (verbose = 2 /\ quiet = 0) => ret = "Info"
    /\ (verbose = 3 /\ quiet = 0) => ret = "Debug"
    /\ (verbose = 4 /\ quiet = 0) => ret = "Trace"
    /\ (verbose \in {5, 6, U8Max} /\ quiet = 0) => ret = "Trace"

C8_Witness ==
  /\ op = "filter"
  /\ L = DefaultLogLevel
  /\ verbose = 4
  /\ quiet = 0
  /\ ret = "Trace"

\* C9: is_present() is true exactly when one of the counts is not zero,
\* whatever the baseline and whatever the effective level.
C9_IsPresentIffAnyCount ==
  op = "is_present" => (ret <=> (verbose # 0 \/ quiet # 0))

C9_Witness ==
  /\ op = "is_present"
  /\ verbose = U8Max
  /\ quiet = U8Max
  /\ ret = TRUE
  /\ EffectiveLevel(L, verbose, quiet) = NamedLevel(L)

\* C10: is_silent() is true exactly when the effective level is Off.
C10_IsSilentIffOff ==
  op = "is_silent" =>
    /\ ~panicked
    /\ ret <=> (EffectiveLevel(L, verbose, quiet) = "Off")
    /\ \A o \in filter(L, verbose, quiet) : ret <=> (o.ret = "Off")

C10_Witness ==
  /\ op = "is_silent"
  /\ L = "InfoLevel"
  /\ verbose = 1
  /\ quiet = 4
  /\ ret = TRUE

\* The lowercase name of every level.
LowercaseName(level) ==
  CHOOSE t \in {"off", "error", "warn", "info", "debug", "trace"} :
    \/ level = "Off" /\ t = "off"
    \/ level = "Error" /\ t = "error"
    \/ level = "Warn" /\ t = "warn"
    \/ level = "Info" /\ t = "info"
    \/ level = "Debug" /\ t = "debug"
    \/ level = "Trace" /\ t = "trace"

\* C11: the text of a Verbosity is the lowercase name of its effective
\* level, one of off, error, warn, info, debug, trace, and two Verbosity of
\* different levels never render to the same text.
C11_DisplayIsLowercaseName ==
  op = "display" =>
    /\ ret = LowercaseName(EffectiveLevel(L, verbose, quiet))
    /\ \A o \in filter(L, verbose, quiet) : ret = fmt(o.ret)
    /\ ret \in {"off", "error", "warn", "info", "debug", "trace"}
    /\ \A f2 \in VerbosityFilter :
         fmt(f2) = ret => f2 = EffectiveLevel(L, verbose, quiet)

C11_Witness ==
  /\ op = "display"
  /\ L = "ErrorLevel"
  /\ verbose = 1
  /\ quiet = 0
  /\ ret = "warn"

\* C12: a Verbosity built from a level f by from(f), for any of the six
\* providers, resolves to f.
C12_FromFilterRoundTrip ==
  (op = "filter" /\ ctor = "from") => ret = from_filter

C12_Witness ==
  /\ op = "filter"
  /\ ctor = "from"
  /\ L = "WarnLevel"
  /\ from_filter = "Off"
  /\ quiet = 2
  /\ ret = "Off"

\* The levels of the log crate in its own order, least verbose first, as the
\* optional level and as the level filter.
LogLevels ==
  <<"None", "Some(Level::Error)", "Some(Level::Warn)", "Some(Level::Info)",
    "Some(Level::Debug)", "Some(Level::Trace)">>

LogLevelFilters ==
  <<"LevelFilter::Off", "LevelFilter::Error", "LevelFilter::Warn",
    "LevelFilter::Info", "LevelFilter::Debug", "LevelFilter::Trace">>

\* The same for tracing_core.
TracingLevels ==
  <<"None", "Some(Level::ERROR)", "Some(Level::WARN)", "Some(Level::INFO)",
    "Some(Level::DEBUG)", "Some(Level::TRACE)">>

TracingLevelFilters ==
  <<"LevelFilter::OFF", "LevelFilter::ERROR", "LevelFilter::WARN",
    "LevelFilter::INFO", "LevelFilter::DEBUG", "LevelFilter::TRACE">>

\* C13: for both backends the optional level is None exactly when the
\* effective level is Off and otherwise Some of the same-named level, and the
\* level filter is the same-named filter, so a level of rank r converts to
\* the backend's level of rank r.
C13_BackendConversionKeepsScale ==
  LET e == EffectiveLevel(L, verbose, quiet) IN
  /\ op = "log_level" =>
       /\ ret = "None" <=> e = "Off"
       /\ ret = LogLevels[Rank(e) + 1]
  /\ op = "log_level_filter" => ret = LogLevelFilters[Rank(e) + 1]
  /\ op = "tracing_level" =>
       /\ ret = "None" <=> e = "Off"
       /\ ret = TracingLevels[Rank(e) + 1]
  /\ op = "tracing_level_filter" => ret = TracingLevelFilters[Rank(e) + 1]

C13_Witness ==
  /\ op = "log_level_filter"
  /\ L = "ErrorLevel"
  /\ verbose = 1
  /\ quiet = 0
  /\ ret = "LevelFilter::Warn"

C15_SerdeRoundTrip ==
  /\ [](op = "deserialize" =>
          /\ arg \in {LowercaseName(f) : f \in VerbosityFilter} => ret = "Ok"
          /\ ret = "Ok" =>
               \A o \in filter(L, verbose, quiet) :
                 ~o.panic /\ LowercaseName(o.ret) = arg)
  /\ [][(op = "serialize" /\ ctor = "from" /\ op' = "deserialize" /\ arg' = ret)
          => (ret' = "Ok" /\ L' = L /\ verbose' = verbose /\ quiet' = quiet
              /\ from_filter' = from_filter)]_vars

C15_Witness ==
  /\ op = "deserialize"
  /\ arg = "debug"
  /\ ret = "Ok"
  /\ L = "InfoLevel"
  /\ verbose = 1
  /\ quiet = 0

Queries ==
  {"filter", "is_present", "is_silent", "log_level", "log_level_filter",
   "tracing_level", "tracing_level_filter"}

\* Every value an evaluation of query q on Verbosity::<l>::new(v, w) can
\* return.
Evaluations(q, l, v, w) ==
  CASE q = "filter" -> {o.ret : o \in filter(l, v, w)}
    [] q = "is_present" -> {is_present(v, w)}
    [] q = "is_silent" ->
         {IF o.panic THEN Panic ELSE is_silent(o.ret) : o \in filter(l, v, w)}
    [] q = "log_level" ->
         {IF o.panic THEN Panic ELSE log_level_from(o.ret) :
            o \in filter(l, v, w)}
    [] q = "log_level_filter" ->
         {IF o.panic THEN Panic ELSE log_level_filter_from(o.ret) :
            o \in filter(l, v, w)}
    [] q = "tracing_level" ->
         {IF o.panic THEN Panic ELSE tracing_level_from(o.ret) :
            o \in filter(l, v, w)}
    [] q = "tracing_level_filter" ->
         {IF o.panic THEN Panic ELSE tracing_level_filter_from(o.ret) :
            o \in filter(l, v, w)}

C19_OneStepPerFlag ==
  op = "filter" =>
    LET s == Rank(NamedLevel(L)) + verbose - quiet IN
    /\ verbose < U8Max =>
         \A o \in filter(L, verbose + 1, quiet) :
           /\ ~o.panic
           /\ Rank(o.ret) - Rank(ret) \in {0, 1}
           /\ s \in 0..4 => Rank(o.ret) - Rank(ret) = 1
    /\ quiet < U8Max =>
         \A o \in filter(L, verbose, quiet + 1) :
           /\ ~o.panic
           /\ Rank(ret) - Rank(o.ret) \in {0, 1}
           /\ s \in 1..5 => Rank(ret) - Rank(o.ret) = 1

C19_Witness ==
  /\ op = "filter"
  /\ L = "InfoLevel"
  /\ verbose = 0
  /\ quiet = 1
  /\ ret = "Warn"
  /\ \E o \in filter(L, verbose + 1, quiet) : o.ret = "Info"
  /\ \E o \in filter(L, verbose, quiet + 1) : o.ret = "Error"

Max(a, b) == IF a >= b THEN a ELSE b

\* C20: from(f) gives verbose = max(0, rank(f) - rank(baseline)) and
\* quiet = max(0, rank(baseline) - rank(f)): at most one is non-zero, both
\* are in 0..5, and is_present() holds exactly when f is not the baseline;
\* converting the level a Verbosity resolves to gives a Verbosity that
\* resolves to the same level.
C20_FromNormalizesCounts ==
  /\ [](ctor = "from" =>
          LET b == Rank(NamedLevel(L)) IN
          /\ verbose = Max(0, Rank(from_filter) - b)
          /\ quiet = Max(0, b - Rank(from_filter))
          /\ verbose = 0 \/ quiet = 0
          /\ verbose \in 0..5 /\ quiet \in 0..5
          /\ is_present(verbose, quiet) <=> from_filter # NamedLevel(L)
          /\ op = "is_present" => (ret <=> from_filter # NamedLevel(L)))
  /\ [][(op' = "from" /\ Evaluations("filter", L, verbose, quiet) = {arg'}) =>
          Evaluations("filter", L', verbose', quiet') = {arg'}]_vars

C20_Witness ==
  /\ op = "from"
  /\ L = "DebugLevel"
  /\ from_filter = "Error"
  /\ verbose = 0
  /\ quiet = 3

\* C21: is_silent() holds without is_present() exactly for the Off baseline
\* with both counts 0; for every other baseline is_silent() implies
\* quiet > verbose, hence is_present().
C21_SilentWithoutFlagsOnlyForOff ==
  op = "is_silent" =>
    /\ ~panicked
    /\ (ret = TRUE /\ ~is_present(verbose, quiet)) <=>
         (NamedLevel(L) = "Off" /\ verbose = 0 /\ quiet = 0)
    /\ (NamedLevel(L) # "Off" /\ ret = TRUE) =>
         (quiet > verbose /\ is_present(verbose, quiet))

C21_Witness ==
  /\ op = "is_silent"
  /\ L = "OffLevel"
  /\ verbose = 0
  /\ quiet = 0
  /\ ret = TRUE
  /\ ~is_present(verbose, quiet)

====
